---- MODULE Spec2Model ----
(***************************************************************************)
(* Test Tracer for Pytest: TestTracerPlugin (plugin.py) driven by the      *)
(* pytest runner.  One session: pytest_configure constructs the plugin,    *)
(* the runner reports setup / call / teardown of each collected test       *)
(* through pytest_runtest_makereport, and pytest_sessionfinish zips the    *)
(* result files and uploads them.                                          *)
(***************************************************************************)
EXTENDS Integers, Sequences, FiniteSets, TLC

\* ------------------------------------------------------------------ bounds
\* Largest number of tests a session collects.
MaxTests == 2
\* Largest number of writes an extension (pytest-bdd) makes to test_data.
MaxUpstream == 1

\* ------------------------------------------------------------ basic values
\* Python's None, as an option value or a field value.
None == "None"

\* config.getoption values: action="store" options are None when absent,
\* action="store_true" options are False when absent; the run reference
\* defaults to a uuid string.  --build-version, which is only copied into
\* the record, is left at its default.
Options ==
    [ use_test_tracer : BOOLEAN,
      run_reference   : {"run-ref"},
      build_version   : {None},
      build_revision  : {None, "abc123"},
      project_name    : {None, "proj"},
      branch_name     : {None, "main"},
      no_upload       : BOOLEAN,
      upload_token    : {None, "tok"} ]

\* Status codes a response may carry.
StatusCodes == {199, 200, 304, 401, 403, 500}

TEST_TRACER_BASE_URL == "https://api.testtracer.io"
UploadUrl == <<TEST_TRACER_BASE_URL, "/api/test-data/upload">>
ProcessUrl == <<TEST_TRACER_BASE_URL, "/api/test-data/process">>

\* Names of the files of ./test_tracer: <uuid>.json and results.zip.
JsonFile(n) == [kind |-> "uuid", n |-> n, ext |-> "json"]
ResultsZip == [kind |-> "results", n |-> 0, ext |-> "zip"]
\* A result file left by an earlier session.
OldJson == JsonFile(0)

\* ------------------------------------------------------------ str.replace
RECURSIVE Replace(_, _, _)
Replace(s, old, new) ==
    IF Len(s) < Len(old) THEN s
    ELSE IF SubSeq(s, 1, Len(old)) = old
         THEN new \o Replace(SubSeq(s, Len(old) + 1, Len(s)), old, new)
         ELSE <<Head(s)>> \o Replace(Tail(s), old, new)

\* datetime.fromtimestamp(t, timezone.utc).strftime("%Y-%m-%dT%H:%M:%S.%f%z")
FormatTime(t) == [fmt |-> "%Y-%m-%dT%H:%M:%S.%f%z", utc |-> t]

\* dict helpers: a dict is a function whose DOMAIN is its key set.
Has(d, k) == k \in DOMAIN d
Put(d, k, v) == [x \in (DOMAIN d) \cup {k} |-> IF x = k THEN v ELSE d[x]]
EmptyDict == [x \in {} |-> None]

\* ------------------------------------------------------------- test items
Digit(i) == <<"0", "1", "2", "3", "4", "5", "6", "7", "8", "9">>[i + 1]
ModuleOf(i) == 1 + (i % 2)

\* The pytest.Item of the i-th collected test: the attributes
\* save_test_report reads (item.own_markers, item.parent.name,
\* item.parent.nodeid) and those its report repeats (nodeid, head_line).
Item(i) ==
    [ nodeid        |-> [module |-> ModuleOf(i), test |-> i],
      head_line     |-> <<"t", "e", "s", "t", "_", "c", "_", Digit(i)>>,
      parent_name   |-> <<"m", "_", Digit(ModuleOf(i)), ".", "p", "y">>,
      parent_nodeid |-> [module |-> ModuleOf(i)],
      own_markers   |-> IF i % 2 = 1 THEN <<"slow", "parametrize">>
                        ELSE <<"usefixtures", "smoke", "flaky">> ]

Outcomes == {"passed", "failed", "skipped"}

\* outcome.get_result() of the call phase of test i: a TestReport.  longrepr
\* is None for a passed test, the exception representation for a failed one
\* and a (path, lineno, reason) tuple for a skipped one.
CallReport(i, outcome, stop) ==
    [ nodeid    |-> Item(i).nodeid,
      head_line |-> Item(i).head_line,
      outcome   |-> outcome,
      stop      |-> stop,
      longrepr  |-> CASE outcome = "passed"  -> [kind |-> "none", test |-> i]
                      [] outcome = "failed"  -> [kind |-> "repr", test |-> i]
                      [] outcome = "skipped" -> [kind |-> "tuple", test |-> i] ]

\* Truth value of result.longrepr.
Truthy(longrepr) == longrepr.kind # "none"

\* ------------------------------------------------------------------ state
VARIABLES
    option,         \* the parsed command line (config.option)
    attrs,          \* attributes __validate_arguments set on the plugin
    test_data,      \* self.test_data
    start_time,     \* self.start_time
    fs,             \* ./test_tracer: exists, files, data (json), zip (entries)
    requests,       \* the HTTP requests sent, in order
    responses,      \* history: each response's status and the lines it logged
    log,            \* log records of level INFO and above, in order
    pc,             \* position of the session
    phase,          \* position of the runner inside the current test
    testscollected, \* session.testscollected
    done,           \* tests whose three phases the runner has finished
    clock,          \* the wall clock: call.start and report.stop
    uuids,          \* uuid.uuid4() values drawn so far
    upstreamUsed    \* writes an extension has made to test_data

vars ==
    << option, attrs, test_data, start_time, fs, requests,
       responses, log, pc, phase, testscollected, done, clock, uuids,
       upstreamUsed >>

\* ------------------------------------------------------------- filesystem
NoDir == [exists |-> FALSE, files |-> {}, data |-> EmptyDict, zip |-> <<>>]
EmptyDir == [exists |-> TRUE, files |-> {}, data |-> EmptyDict, zip |-> <<>>]
OldDoc == [k \in {"uniqueName"} |-> [module |-> 0, test |-> 0]]
OldDir ==
    [ exists |-> TRUE,
      files  |-> {OldJson, ResultsZip},
      data   |-> [f \in {OldJson} |-> OldDoc],
      zip    |-> <<OldJson>> ]

Init ==
    /\ option \in Options
    /\ attrs = EmptyDict
    /\ test_data = EmptyDict
    /\ start_time = None
    /\ fs \in {NoDir, EmptyDir, OldDir}
    /\ requests = <<>>
    /\ responses = <<>>
    /\ log = <<>>
    /\ pc = "configure"
    /\ phase = "none"
    /\ testscollected \in 0..MaxTests
    /\ done = 0
    /\ clock = 1
    /\ uuids = 0
    /\ upstreamUsed = 0

\* ---------------------------------------------------- __validate_arguments
\* Returns the attributes assigned and whether ValueError was raised.
\* Variant: the upload token is not checked.
ValidateArgumentsNoTokenCheck(opt) ==
    LET a0 == Put(EmptyDict, "enabled", opt.use_test_tracer)
        a1 == Put(Put(Put(a0, "run_reference", opt.run_reference),
                      "build_version", opt.build_version),
                  "build_revision", opt.build_revision)
        a2 == Put(a1, "project_name", opt.project_name)
        a3 == Put(a2, "branch_name", opt.branch_name)
        a4 == Put(Put(a3, "should_upload_results", opt.no_upload = FALSE),
                  "upload_token", opt.upload_token)
    IN  IF a0["enabled"] = FALSE THEN [raised |-> FALSE, attrs |-> a0]
        ELSE IF a1["build_revision"] = None THEN [raised |-> TRUE, attrs |-> a1]
        ELSE IF a2["project_name"] = None THEN [raised |-> TRUE, attrs |-> a2]
        ELSE IF a3["branch_name"] = None THEN [raised |-> TRUE, attrs |-> a3]
        ELSE [raised |-> FALSE, attrs |-> a4]

ValidateArguments(opt) ==
    LET a0 == Put(EmptyDict, "enabled", opt.use_test_tracer)
        a1 == Put(Put(Put(a0, "run_reference", opt.run_reference),
                      "build_version", opt.build_version),
                  "build_revision", opt.build_revision)
        a2 == Put(a1, "project_name", opt.project_name)
        a3 == Put(a2, "branch_name", opt.branch_name)
        a4 == Put(Put(a3, "should_upload_results", opt.no_upload = FALSE),
                  "upload_token", opt.upload_token)
    IN  IF a0["enabled"] = FALSE THEN [raised |-> FALSE, attrs |-> a0]
        ELSE IF a1["build_revision"] = None THEN [raised |-> TRUE, attrs |-> a1]
        ELSE IF a2["project_name"] = None THEN [raised |-> TRUE, attrs |-> a2]
        ELSE IF a3["branch_name"] = None THEN [raised |-> TRUE, attrs |-> a3]
        ELSE IF a4["upload_token"] = None /\ a4["should_upload_results"]
             THEN [raised |-> TRUE, attrs |-> a4]
        ELSE [raised |-> FALSE, attrs |-> a4]

\* --------------------------------------------------- __reset_results_folder
\* shutil.rmtree(path) raises FileNotFoundError when the path does not exist;
\* Path(path).mkdir(exist_ok=True) then creates the empty directory.
\* Variant: the folder is reset whether or not the plugin is enabled.
ResetResultsFolderAlways(a, f) ==
    IF ~f.exists THEN [raised |-> TRUE, fs |-> f]
    ELSE [raised |-> FALSE, fs |-> EmptyDir]

ResetResultsFolder(a, f) ==
    IF ~a["enabled"] THEN [raised |-> FALSE, fs |-> f]
    ELSE IF ~f.exists THEN [raised |-> TRUE, fs |-> f]
    ELSE [raised |-> FALSE, fs |-> EmptyDir]

\* ------------------------------------------- pytest_configure -> __init__
Configure ==
    /\ pc = "configure"
    /\ LET v == ValidateArguments(option) IN
         /\ attrs' = v.attrs
         /\ IF v.raised
            THEN /\ pc' = "config_error"
                 /\ UNCHANGED <<test_data, fs>>
            ELSE LET r == ResetResultsFolder(v.attrs, fs) IN
                   /\ test_data' = EmptyDict
                   /\ fs' = r.fs
                   /\ pc' = IF r.raised THEN "crashed" ELSE "running"
    /\ UNCHANGED << option, start_time, requests, responses,
                    log, phase, testscollected, done, clock, uuids, upstreamUsed >>

\* -------------------------------------------------------- save_test_report
\* if key not in d: d[key] = value
\* Variant: d[key] = value, whether or not the key is present.
SetDefaultOverwrite(d, k, v) == Put(d, k, v)

SetDefault(d, k, v) == IF Has(d, k) THEN d ELSE Put(d, k, v)

\* The failure entry built from result.longrepr.
Failure(longrepr) ==
    [ reason |-> [reprcrash_message |-> longrepr.test],
      trace  |-> [reprtraceback |-> longrepr.test] ]

\* item.own_markers without the three default pytest markers.
DefaultMarkers == {"parametrize", "flaky", "usefixtures"}
IsTag(m) == m \notin DefaultMarkers
Tags(markers) == SelectSeq(markers, IsTag)

HostName == "host"
Uuid4(n) == [uuid4 |-> n]

\* The feature entry built from item.parent.
NewFeature(it) ==
    [ k \in {"displayName", "description"} |->
        IF k = "displayName" THEN Replace(it.parent_name, <<".", "p", "y">>, <<>>)
        ELSE None ]

\* The record after lines 167-230: td is self.test_data before the call, st
\* is self.start_time, result the call report of test i, runId the uuid
\* drawn for testCaseRunId.
FillReport(td, a, st, i, result, collected, runId) ==
    LET it  == Item(i)
        d1  == IF Truthy(result.longrepr) /\ result.outcome = "failed"
               THEN Put(td, "failure", Failure(result.longrepr))
               ELSE td
        d2  == SetDefault(d1, "uniqueName", result.nodeid)
        d3  == SetDefault(d2, "displayName",
                   Replace(Replace(result.head_line,
                                   <<"t", "e", "s", "t", "_">>, <<>>),
                           <<"_">>, <<" ">>))
        d4  == Put(d3, "result",
                   IF Has(d3, "result") THEN d3["result"] ELSE result.outcome)
        d5  == SetDefault(d4, "startTime", st)
        d6  == SetDefault(d5, "endTime", FormatTime(result.stop))
        d7  == Put(d6, "tags", Tags(it.own_markers))
        d8  == Put(d7, "testCount", collected)
        d9  == SetDefault(d8, "testLibrary", "Pytest")
        d10 == SetDefault(d9, "feature", NewFeature(it))
        d11 == IF ~Has(d10["feature"], "uniqueName")
               THEN Put(d10, "feature",
                        Put(d10["feature"], "uniqueName", it.parent_nodeid))
               ELSE d10
        d12 == Put(d11, "externalReference", a["run_reference"])
        d13 == Put(d12, "machineName", HostName)
        d14 == Put(d13, "buildVersion", a["build_version"])
        d15 == Put(d14, "buildRevision", a["build_revision"])
        d16 == Put(d15, "branch", a["branch_name"])
        d17 == Put(d16, "project", a["project_name"])
        d18 == Put(d17, "testCaseRunId", Uuid4(runId))
    IN  SetDefault(d18, "metadata", <<>>)

\* json.dumps(record): the text of the file; JsonLoads reads it back.
JsonDumps(d) == [json |-> d]
JsonLoads(text) == text.json

\* open(f"{path}/{uuid}.json", "w").write(text)
WriteFile(f, name, text) ==
    [f EXCEPT !.files = @ \cup {name}, !.data = Put(@, name, text)]

\* save_test_report(item, call, outcome) for test i: the plugin state after.
SaveTestReport(st, i, result) ==
    IF ~attrs["enabled"]
    THEN [test_data |-> test_data, fs |-> fs, uuids |-> uuids]
    ELSE LET td   == FillReport(test_data, attrs, st, i, result,
                                testscollected, uuids + 1)
             name == JsonFile(uuids + 2)
         IN  [test_data |-> td,
              fs        |-> WriteFile(fs, name, JsonDumps(td)),
              uuids     |-> uuids + 2]

\* ------------------------------------------------ pytest_runtest_makereport
\* The hook for phase `when` of test i, whose report has `outcome`: the
\* plugin state after the hook returns.
MakeReport(when, i, outcome) ==
    LET st == IF when = "setup" THEN FormatTime(clock) ELSE start_time
    IN  IF when # "call"
        THEN [start_time |-> st, test_data |-> test_data, fs |-> fs,
              uuids |-> uuids]
        ELSE LET r == SaveTestReport(st, i, CallReport(i, outcome, clock))
             IN  [start_time |-> st, test_data |-> r.test_data, fs |-> r.fs,
                  uuids |-> r.uuids]

Apply(r) ==
    /\ start_time' = r.start_time
    /\ test_data' = r.test_data
    /\ fs' = r.fs
    /\ uuids' = r.uuids

\* The runner reports the phases of one test in order (runtestprotocol):
\* setup, then call only when setup passed, then teardown.
ReportSetup(outcome) ==
    /\ pc = "running" /\ phase = "none" /\ done < testscollected
    /\ Apply(MakeReport("setup", done + 1, outcome))
    /\ phase' = IF outcome = "passed" THEN "setup_passed" ELSE "setup_not_passed"
    /\ clock' = clock + 1
    /\ UNCHANGED << option, attrs, requests, responses, log, pc,
                    testscollected, done, upstreamUsed >>

ReportCall(outcome) ==
    /\ pc = "running" /\ phase = "setup_passed"
    /\ Apply(MakeReport("call", done + 1, outcome))
    /\ phase' = "called"
    /\ clock' = clock + 1
    /\ UNCHANGED << option, attrs, requests, responses, log, pc,
                    testscollected, done, upstreamUsed >>

ReportTeardown(outcome) ==
    /\ pc = "running" /\ phase \in {"setup_not_passed", "called"}
    /\ Apply(MakeReport("teardown", done + 1, outcome))
    /\ phase' = "none"
    /\ done' = done + 1
    /\ clock' = clock + 1
    /\ UNCHANGED << option, attrs, requests, responses, log, pc,
                    testscollected, upstreamUsed >>

\* ------------------------------------------- writes by a pytest extension
\* plugin.py:185: "the value might have been put there by an extension of
\* pytest (such as pytest-bdd)".  An extension reporting through the enabled
\* plugin may put any field into test_data between the setup and the call
\* report of a test.
Fields ==
    { "failure", "uniqueName", "displayName", "result", "startTime",
      "endTime", "tags", "testCount", "testLibrary", "feature",
      "externalReference", "machineName", "buildVersion", "buildRevision",
      "branch", "project", "testCaseRunId", "metadata" }

ExtensionFeature(withUnique) ==
    [ k \in {"displayName", "description"}
            \cup (IF withUnique THEN {"uniqueName"} ELSE {}) |->
        CASE k = "displayName" -> <<"b", "d", "d">>
          [] k = "description" -> "bdd feature"
          [] k = "uniqueName"  -> [module |-> 0] ]

ExtensionValue(k) ==
    CASE k = "failure"           -> Failure([kind |-> "repr", test |-> 0])
      [] k = "uniqueName"        -> [module |-> 0, test |-> 0]
      [] k = "displayName"       -> <<"b", "d", "d">>
      [] k = "result"            -> "bdd-result"
      [] k = "startTime"         -> FormatTime(0)
      [] k = "endTime"           -> FormatTime(0)
      [] k = "tags"              -> <<"bdd">>
      [] k = "testCount"         -> 0
      [] k = "testLibrary"       -> "pytest-bdd"
      [] k = "feature"           -> ExtensionFeature(TRUE)
      [] k = "externalReference" -> "bdd-ref"
      [] k = "machineName"       -> "bdd-host"
      [] k = "buildVersion"      -> "bdd-version"
      [] k = "buildRevision"     -> "bdd-revision"
      [] k = "branch"            -> "bdd-branch"
      [] k = "project"           -> "bdd-project"
      [] k = "testCaseRunId"     -> Uuid4(0)
      [] k = "metadata"          -> <<"bdd-meta">>
      [] k = "extra"             -> "bdd-extra"

ExtensionWrites ==
    { <<k, ExtensionValue(k)>> : k \in Fields \cup {"extra"} }
        \cup { <<"feature", ExtensionFeature(FALSE)>> }

ExtensionWrite(w) ==
    /\ pc = "running" /\ phase = "setup_passed"
    /\ attrs["enabled"]
    /\ upstreamUsed < MaxUpstream
    /\ test_data' = Put(test_data, w[1], w[2])
    /\ upstreamUsed' = upstreamUsed + 1
    /\ UNCHANGED << option, attrs, start_time, fs, requests,
                    responses, log, pc, phase, testscollected, done, clock,
                    uuids >>

\* ------------------------------------------------------------ __zip_results
\* glob.glob(f"{path}/*.json"): the files of the directory ending in .json.
\* Variant: the pattern "*" instead of "*.json".
GlobAll(files) == files

Glob(files) == {f \in files : f.ext = "json"}

RECURSIVE SetToSeq(_)
SetToSeq(S) ==
    IF S = {} THEN <<>>
    ELSE LET x == CHOOSE y \in S : TRUE IN <<x>> \o SetToSeq(S \ {x})

\* ZipFile(".../results.zip", "w") creates the archive, then every globbed
\* file is written into it.
ZipResults(f) ==
    LET opened == [f EXCEPT !.files = @ \cup {ResultsZip}, !.zip = <<>>]
    IN  [opened EXCEPT !.zip = SetToSeq(Glob(opened.files))]

\* ----------------------------------------------------------- __make_request
\* The outcome of __make_request when the server answers with `status`:
\* whether it raised, whether the request was sent, and the lines logged.
WarningLine(status) ==
    [ level |-> "warning",
      msg   |-> "Test Tracer responded with a {} status code",
      args  |-> <<status>> ]

\* Variant: a 401 or 403 response raises instead of being logged.
MakeRequestRaiseOnAuth(token, status) ==
    IF token = None THEN [raised |-> TRUE, sent |-> FALSE, log |-> <<>>]
    ELSE [ raised |-> status \in {401, 403},
           sent   |-> TRUE,
           log    |-> IF (status >= 200 /\ status < 400) \/ status \in {401, 403}
                      THEN <<>> ELSE <<WarningLine(status)>> ]

\* Variant: only status codes below 300 count as success.
MakeRequestBelow300(token, status) ==
    IF token = None THEN [raised |-> TRUE, sent |-> FALSE, log |-> <<>>]
    ELSE [ raised |-> FALSE,
           sent   |-> TRUE,
           log    |->
             IF status >= 200 /\ status < 300 THEN <<>>
             ELSE IF status \in {401, 403}
             THEN << [level |-> "fatal", msg |-> "auth", args |-> <<>>] >>
             ELSE <<WarningLine(status)>> ]

MakeRequest(token, status) ==
    IF token = None THEN [raised |-> TRUE, sent |-> FALSE, log |-> <<>>]
    ELSE [ raised |-> FALSE,
           sent   |-> TRUE,
           log    |->
             IF status >= 200 /\ status < 400 THEN <<>>
             ELSE IF status = 401
             THEN << [level |-> "fatal",
                      msg |-> "Failed to authenticate with Test Tracer",
                      args |-> <<>>] >>
             ELSE IF status = 403
             THEN << [level |-> "fatal",
                      msg |-> "Your API Token does not have permission",
                      args |-> <<>>] >>
             ELSE <<WarningLine(status)>> ]

InfoLine(text) == [level |-> "info", msg |-> text, args |-> <<>>]

\* ----------------------------------------------------- pytest_sessionfinish
\* Variant: the upload does not depend on --test-tracer-no-upload.
SessionFinishAlwaysUpload ==
    /\ pc = "running" /\ phase = "none" /\ done = testscollected
    /\ IF ~attrs["enabled"]
       THEN pc' = "finished" /\ UNCHANGED fs
       ELSE fs' = ZipResults(fs) /\ pc' = "upload"
    /\ UNCHANGED << option, attrs, test_data, start_time,
                    requests, responses, log, phase, testscollected, done,
                    clock, uuids, upstreamUsed >>

\* Lines 31-36: the enabled check, __zip_results and the upload decision.
SessionFinish ==
    /\ pc = "running" /\ phase = "none" /\ done = testscollected
    /\ IF ~attrs["enabled"]
       THEN pc' = "finished" /\ UNCHANGED fs
       ELSE /\ fs' = ZipResults(fs)
            /\ pc' = IF attrs["should_upload_results"] = TRUE
                     THEN "upload" ELSE "finished"
    /\ UNCHANGED << option, attrs, test_data, start_time,
                    requests, responses, log, phase, testscollected, done, clock, uuids,
                    upstreamUsed >>

\* Line 37: __upload_results, answered with `status`.
UploadResults(status) ==
    /\ pc = "upload"
    /\ LET r == MakeRequest(attrs["upload_token"], status) IN
         /\ log' = log \o <<InfoLine("Uploading results to Test Tracer...")>>
                       \o r.log
         /\ requests' = IF r.sent THEN Append(requests, UploadUrl) ELSE requests
         /\ responses' = IF r.sent
                        THEN Append(responses, [status |-> status, log |-> r.log])
                        ELSE responses
         /\ pc' = IF r.raised THEN "crashed" ELSE "process"
    /\ UNCHANGED << option, attrs, test_data, start_time, fs,
                    phase, testscollected, done, clock, uuids, upstreamUsed >>

\* Line 38: __process_results, answered with `status`.
ProcessResults(status) ==
    /\ pc = "process"
    /\ LET r == MakeRequest(attrs["upload_token"], status) IN
         /\ log' = log \o <<InfoLine("Processing results on Test Tracer...")>>
                       \o r.log
         /\ requests' = IF r.sent THEN Append(requests, ProcessUrl) ELSE requests
         /\ responses' = IF r.sent
                        THEN Append(responses, [status |-> status, log |-> r.log])
                        ELSE responses
         /\ pc' = IF r.raised THEN "crashed" ELSE "finished"
    /\ UNCHANGED << option, attrs, test_data, start_time, fs,
                    phase, testscollected, done, clock, uuids, upstreamUsed >>

\* ---------------------------------------------------------- specification
Next ==
    \/ Configure
    \/ \E o \in Outcomes : ReportSetup(o)
    \/ \E w \in ExtensionWrites : ExtensionWrite(w)
    \/ \E o \in Outcomes : ReportCall(o)
    \/ \E o \in {"passed", "failed"} : ReportTeardown(o)
    \/ SessionFinish
    \/ \E s \in StatusCodes : UploadResults(s)
    \/ \E s \in StatusCodes : ProcessResults(s)

Spec == Init /\ [][Next]_vars

\* =================================================================== claims
\* The record of the file the current step has just written.
NewFile == CHOOSE f \in fs'.files \ fs.files : TRUE
NewDoc == JsonLoads(fs'.data[NewFile])

\* A step that is the call report of a test, with the plugin enabled.
CallStep == phase = "setup_passed" /\ phase' = "called" /\ attrs["enabled"]

MandatoryFields ==
    { "uniqueName", "displayName", "result", "startTime", "endTime", "tags",
      "testCount", "testLibrary", "feature", "externalReference",
      "machineName", "buildRevision", "branch", "project", "testCaseRunId",
      "metadata" }

\* C1: with the plugin enabled, between tests the number of result files
\* equals the number of tests the runner has completed, whatever their
\* outcomes, and every result file has every mandatory field, its feature
\* holding displayName and uniqueName.
C1_OneFilePerCompletedTest ==
    (pc = "running" /\ attrs["enabled"] /\ phase = "none") =>
        /\ Cardinality(Glob(fs.files)) = done
        /\ \A f \in Glob(fs.files) :
             LET doc == JsonLoads(fs.data[f]) IN
               /\ MandatoryFields \subseteq DOMAIN doc
               /\ {"displayName", "uniqueName"} \subseteq DOMAIN doc["feature"]

\* The record a test's call report gives when it starts from an empty
\* record: created for test i and finalized at its call completion.
FreshRecord(i, outcome) ==
    FillReport(EmptyDict, attrs, start_time, i,
               CallReport(i, outcome, clock), testscollected, 0)

OwnFields ==
    {"uniqueName", "displayName", "result", "startTime", "endTime", "feature"}

\* C2: when no extension has written to the record, the file a test's call
\* report writes carries that test's own uniqueName, displayName, result,
\* startTime, endTime and feature, and a failure entry only if that test
\* failed: it is the record some outcome of this test gives from scratch.
C2_FileDescribesOwnTest ==
    [][ (CallStep /\ upstreamUsed = 0) =>
          \E o \in Outcomes :
            /\ \A k \in OwnFields : NewDoc[k] = FreshRecord(done + 1, o)[k]
            /\ ("failure" \in DOMAIN NewDoc) <=> (o = "failed") ]_vars

\* C3 (as stated): save_test_report leaves every field already present in
\* test_data with the value it had, in test_data and in the file written.
C3_NoFieldOverwritten ==
    [][ CallStep =>
          \A k \in DOMAIN test_data :
            /\ test_data'[k] = test_data[k]
            /\ NewDoc[k] = test_data[k] ]_vars

\* Fields save_test_report assigns unconditionally.
AlwaysAssigned ==
    { "tags", "testCount", "externalReference", "machineName", "buildVersion",
      "buildRevision", "branch", "project", "testCaseRunId" }

\* C3 (amended): save_test_report keeps every field already present except
\* the unconditionally assigned ones; of a present feature it keeps every
\* sub-field and adds at most uniqueName; a present failure entry is kept or
\* replaced by the failure of the test being reported.
C3_FirstWriteWinsFields ==
    [][ CallStep =>
          \A k \in DOMAIN test_data :
            CASE k \in AlwaysAssigned -> TRUE
              [] k = "feature" ->
                   /\ \A j \in DOMAIN test_data[k] :
                        /\ test_data'[k][j] = test_data[k][j]
                        /\ NewDoc[k][j] = test_data[k][j]
                   /\ DOMAIN test_data'[k] = DOMAIN test_data[k] \cup {"uniqueName"}
              [] k = "failure" ->
                   /\ NewDoc[k] = test_data'[k]
                   /\ \/ test_data'[k] = test_data[k]
                      \/ test_data'[k] = Failure([kind |-> "repr", test |-> done + 1])
              [] OTHER ->
                   /\ test_data'[k] = test_data[k]
                   /\ NewDoc[k] = test_data[k] ]_vars

\* C3 witness: an extension set uniqueName and a feature without uniqueName
\* before the call report; the file written keeps both and has the test's
\* own tags.
C3_Witness ==
    /\ phase = "called" /\ done = 0 /\ upstreamUsed = 1
    /\ \E f \in Glob(fs.files) :
         LET doc == JsonLoads(fs.data[f]) IN
           /\ doc["feature"]["displayName"] = <<"b", "d", "d">>
           /\ doc["feature"]["uniqueName"] = Item(1).parent_nodeid
           /\ doc["tags"] = <<"slow">>

\* The configurations the specification calls invalid: the plugin enabled
\* and an identifying argument missing, or uploading enabled without token.
InvalidConfig(opt) ==
    /\ opt.use_test_tracer
    /\ \/ opt.build_revision = None
       \/ opt.project_name = None
       \/ opt.branch_name = None
       \/ (opt.no_upload = FALSE /\ opt.upload_token = None)

\* C4: under an invalid configuration the only step of the session is the
\* construction, which ends in the configuration error with the results
\* directory, the record and the requests untouched; under any other
\* configuration no step ends in the configuration error.
C4_InvalidConfigFailsFast ==
    [][ /\ InvalidConfig(option) =>
             (pc' = "config_error" /\ UNCHANGED <<fs, test_data, requests>>)
        /\ ~InvalidConfig(option) => pc' # "config_error" ]_vars

\* C4 witness: uploading enabled without a token, everything else given:
\* construction has failed and the directory of the earlier session is intact.
C4_Witness ==
    /\ pc = "config_error"
    /\ fs = OldDir
    /\ option.build_revision # None /\ option.project_name # None
    /\ option.branch_name # None
    /\ option.no_upload = FALSE /\ option.upload_token = None

IsAuthFailure(status) == status \in {401, 403}
IsFatal(line) == line.level = "fatal"
AuthFailures == {i \in 1..Len(responses) : IsAuthFailure(responses[i].status)}

\* C5: every 401 or 403 response logs exactly one line, a fatal one, and
\* these are the only fatal lines of the log; a response never leaves the
\* session crashed: after the upload's response the process request is
\* next, and after the process response the session has finished with both
\* requests sent.
C5_AuthFailureLoggedSessionContinues ==
    /\ \A i \in AuthFailures :
         Len(responses[i].log) = 1 /\ IsFatal(responses[i].log[1])
    /\ Len(SelectSeq(log, IsFatal)) = Cardinality(AuthFailures)
    /\ Len(responses) = 1 => pc = "process"
    /\ Len(responses) = 2 =>
         pc = "finished" /\ requests = <<UploadUrl, ProcessUrl>>

\* C5 witness: the upload was answered 401, the process request was still
\* sent and answered 403, and the session finished with two fatal lines.
C5_Witness ==
    /\ pc = "finished"
    /\ Len(responses) = 2
    /\ responses[1].status = 401 /\ responses[2].status = 403
    /\ requests = <<UploadUrl, ProcessUrl>>
    /\ Len(SelectSeq(log, IsFatal)) = 2

ZipEntries == {fs.zip[i] : i \in DOMAIN fs.zip}

\* C6: once the enabled plugin has zipped, results.zip exists and its
\* entries are exactly the .json files of the directory, each entered once,
\* results.zip not among them; they are the files save_test_report wrote
\* in this session, none from an earlier one.
C6_ArchiveHoldsExactlyJsonFiles ==
    (pc \in {"upload", "process", "finished"} /\ attrs["enabled"]) =>
        /\ ResultsZip \in fs.files
        /\ ZipEntries = Glob(fs.files)
        /\ ResultsZip \notin ZipEntries
        /\ Len(fs.zip) = Cardinality(ZipEntries)
        /\ ZipEntries = {JsonFile(2 * k) : k \in 1..(uuids \div 2)}
        /\ OldJson \notin ZipEntries

\* C6 witness: a session that wrote two result files has zipped both.
C6_Witness ==
    /\ pc = "finished" /\ attrs["enabled"]
    /\ Cardinality(ZipEntries) = 2
    /\ ResultsZip \in fs.files

\* C7: once the plugin is constructed with the plugin enabled and a valid
\* configuration, construction has not failed, ./test_tracer exists, and
\* before any result is written it is empty, whatever was there before.
C7_ResultsFolderRecreated ==
    (pc # "configure" /\ option.use_test_tracer /\ ~InvalidConfig(option)) =>
        /\ pc # "crashed"
        /\ fs.exists
        /\ (pc = "running" /\ uuids = 0) => fs.files = {}

\* C8: the requests sent are a prefix of [upload, process], one response
\* each; none is sent unless the plugin and uploading are enabled and
\* results.zip has been written; a finished session has sent both when
\* uploading is enabled and none otherwise; a failed construction none.
C8_RequestsAreUploadThenProcess ==
    /\ requests \in {<<>>, <<UploadUrl>>, <<UploadUrl, ProcessUrl>>}
    /\ Len(responses) = Len(requests)
    /\ requests # <<>> =>
         /\ pc \in {"process", "finished"}
         /\ option.use_test_tracer /\ option.no_upload = FALSE
         /\ ResultsZip \in fs.files
    /\ pc = "process" => requests = <<UploadUrl>>
    /\ pc = "finished" =>
         requests = IF option.use_test_tracer /\ option.no_upload = FALSE
                    THEN <<UploadUrl, ProcessUrl>> ELSE <<>>
    /\ pc \in {"config_error", "crashed"} => requests = <<>>

\* C8 witness: both requests were answered 500 and each was sent once.
C8_Witness ==
    /\ pc = "finished"
    /\ requests = <<UploadUrl, ProcessUrl>>
    /\ Len(responses) = 2
    /\ responses[1].status = 500 /\ responses[2].status = 500

\* C9 (as stated): a response outside 200-299 that is neither 401 nor 403
\* logs one warning naming its status code, and a response in 200-299 logs
\* nothing.
C9_WarningOutside2xx ==
    \A i \in 1..Len(responses) :
      LET s == responses[i].status IN
        /\ (s \notin 200..299 /\ ~IsAuthFailure(s)) =>
             responses[i].log = <<WarningLine(s)>>
        /\ s \in 200..299 => responses[i].log = <<>>

\* C9 (amended): a response outside 200-399 that is neither 401 nor 403
\* logs one warning naming its status code, a response in 200-399 logs
\* nothing, and no response leaves the session crashed.
C9_WarningOutside2xx3xx ==
    /\ \A i \in 1..Len(responses) :
         LET s == responses[i].status IN
           /\ (s \notin 200..399 /\ ~IsAuthFailure(s)) =>
                responses[i].log = <<WarningLine(s)>>
           /\ s \in 200..399 => responses[i].log = <<>>
    /\ responses # <<>> => pc \in {"process", "finished"}

\* C9 witness: a 304 answer logged nothing and a 500 answer logged a warning.
C9_Witness ==
    /\ Len(responses) = 2
    /\ responses[1].status = 304 /\ responses[1].log = <<>>
    /\ responses[2].status = 500 /\ responses[2].log = <<WarningLine(500)>>
    /\ log = << InfoLine("Uploading results to Test Tracer..."),
                InfoLine("Processing results on Test Tracer..."),
                WarningLine(500) >>

\* C10: without --use-test-tracer no step of the session fails, touches
\* ./test_tracer, changes test_data or sends a request.
C10_DisabledPluginIsInert ==
    [][ ~option.use_test_tracer =>
          /\ pc' \notin {"config_error", "crashed"}
          /\ UNCHANGED <<fs, test_data, requests>> ]_vars

\* C10 witness: a disabled session with every other argument missing ran
\* two tests through all their phases and finished with the earlier
\* session's files still in place.
C10_Witness ==
    /\ pc = "finished" /\ done = 2
    /\ ~option.use_test_tracer
    /\ option.build_revision = None /\ option.project_name = None
    /\ option.branch_name = None /\ option.upload_token = None
    /\ fs = OldDir
    /\ test_data = EmptyDict

====
